---- MODULE Spec2Model ----
(***************************************************************************)
(* Model of the session supervisor of srt-server.js: class SRTServer       *)
(* (constructor, clearHLSBuffer, start with its stderr/close/error         *)
(* handlers and its restart timer, stop, getStats), the module-level       *)
(* start-up and the SIGINT/SIGTERM handlers.                               *)
(*                                                                         *)
(* Every handler runs to completion (Node's event loop), so each handler   *)
(* is one action.  The engine (ffmpeg), the clock, the file system and     *)
(* the operator are the environment.                                       *)
(***************************************************************************)
EXTENDS Integers, Sequences, FiniteSets, TLC

\* ------------------------------------------------------------------ bounds
\* Value of the model clock (Date.now(), in ms) when the process starts.
Epoch == 1000
\* Granularity of the model clock, in ms.
TickMs == 1000
\* Number of ticks after which the clock stops advancing.
MaxTicks == 2
MaxTime == Epoch + MaxTicks * TickMs
\* The scripted trace: the times (ms after the spawn) of the engine's first
\* and second progress line and of its exit.
TraceFirstLine == 0
TraceSecondLine == 40
TraceExit == 5000

\* --------------------------------------------------------- program values
\* a restart delay that lost a zero: 200 ms
RestartDelay_Short == 2000 \div 10
\* setTimeout(..., 2000) in the close handler.
RestartDelay == 2000
\* The cooldown the specification configures (2000 ms).
ConfiguredCooldown == 2000

\* JavaScript null, for a time and for a process handle.
null == -1
NoProcess == 0
\* JavaScript null, for a path.
NoFile == <<>>
\* exit code reported by 'close' after a spawn failure (-errno, ENOENT).
SpawnErrorCode == -2

\* File names are sequences of characters.
DotTs == <<".", "t", "s">>
DotM3u8 == <<".", "m", "3", "u", "8">>
\* path.join(CONFIG.hlsDir, 'segment%03d.ts') with -start_number 0
SegmentFile == <<"s", "e", "g", "m", "e", "n", "t", "0", "0", "0">> \o DotTs
\* path.join(CONFIG.hlsDir, "stream.m3u8")
hlsPlaylist == <<"s", "t", "r", "e", "a", "m">> \o DotM3u8
\* A file in the buffer directory that is neither a segment nor a manifest.
OtherFile == <<"n", "o", "t", "e", "s">> \o DotTs \o <<".", "b", "a", "k">>
EngineFiles == {SegmentFile, hlsPlaylist}
DirNames == EngineFiles \cup {OtherFile}

\* Substrings the stderr handler looks for in a chunk of engine output.
Markers == {"frame=", "time=", "error", "Error"}
\* The chunks of engine output tried: the markers each contains.
Chunks == {{}, {"frame="}, {"time="}, {"error"}, {"Error"}, {"frame=", "Error"}}
\* Exit codes of an engine that had been spawned: clean and abnormal.
ExitCodes == {0, 1}

VARIABLES
    now,            \* Date.now()
    booted,         \* module-level srtServer.start() has run
    halted,         \* process.exit(0) has been called
    ffmpegProcess,  \* this.ffmpegProcess: NoProcess or the id of a child
    stats,          \* this.stats
    procs,          \* every child process spawned so far, by id
    timers,         \* pending setTimeout callbacks
    hlsExists,      \* the directory CONFIG.hlsDir exists
    hlsFiles,       \* its files: records [name, owner]
    lastClearOk,    \* the latest clearHLSBuffer ran without an exception
    stops,          \* history: the phases in which stop() was called
                    \* since the latest spawn
    act,            \* the handler that ran last
    ops             \* the effectful calls it made, in order

vars == <<now, booted, halted, ffmpegProcess, stats, procs, timers, hlsExists,
          hlsFiles, lastClearOk, stops, act, ops>>

\* ---------------------------------------------------------------- helpers
\* String.prototype.endsWith
EndsWith(s, suffix) ==
    /\ Len(s) >= Len(suffix)
    /\ SubSeq(s, Len(s) - Len(suffix) + 1, Len(s)) = suffix

\* the file test written with String.prototype.includes
IsHLSFile_Includes(file) ==
    \E i, j \in 1..Len(file) : SubSeq(file, i, j) \in {DotTs, DotM3u8}

\* file.endsWith(".ts") || file.endsWith(".m3u8")
IsHLSFile(file) == EndsWith(file, DotTs) \/ EndsWith(file, DotM3u8)

\* The orders in which fs.readdirSync may list the names of a directory.
Listings(names) ==
    {l \in [1..Cardinality(names) -> names] :
        \A i, j \in 1..Cardinality(names) : l[i] = l[j] => i = j}

\* files.forEach of clearHLSBuffer: unlink each matching file in listing
\* order; an exception of fs.unlinkSync (on failName) leaves the loop.
RECURSIVE forEachUnlink(_, _, _)
forEachUnlink(listing, files, failName) ==
    IF listing = <<>> THEN [files |-> files, ok |-> TRUE]
    ELSE LET file == Head(listing) IN
         IF IsHLSFile(file)
         THEN IF file = failName
              THEN [files |-> files, ok |-> FALSE]
              ELSE forEachUnlink(Tail(listing),
                                 {f \in files : f.name # file}, failName)
         ELSE forEachUnlink(Tail(listing), files, failName)

\* clearHLSBuffer(): the directory content it leaves and whether it ran
\* without an exception (readdirSync throws when the directory is missing).
clearHLSBuffer(exists, files, listing, failName) ==
    IF ~exists THEN [files |-> files, ok |-> FALSE]
    ELSE forEachUnlink(listing, files, failName)

\* The inputs of one clearHLSBuffer call: a listing order and the file (if
\* any) whose unlink fails.
ClearInputs ==
    LET names == {f.name : f \in hlsFiles} IN
    {[listing |-> l, failName |-> n] :
        l \in Listings(names), n \in {NoFile} \cup {x \in names : IsHLSFile(x)}}

\* history: a clearHLSBuffer call with these inputs unlinks a file that
\* child p wrote
Removed(in, p) ==
    \E f \in hlsFiles \
          clearHLSBuffer(hlsExists, hlsFiles, in.listing, in.failName).files :
       f.owner = p

\* a recording name made from the date alone
OutputFile_DateOnly(t) == <<"stream", t \div 86400000, 0, "mp4">>

\* new Date().toISOString().replace(/[:.]/g, "-") inside stream-<...>.mp4:
\* the seconds and the milliseconds are separate fields of the name.
OutputFile(t) == <<"stream", t \div 1000, t % 1000, "mp4">>

\* JavaScript truthiness of a time value.
Truthy(v) == v # null /\ v # 0

PIDs == 1..Len(procs)
Running == {p \in PIDs : procs[p].status = "running"}
\* children whose 'close' has not been handled yet
Open == {p \in PIDs : procs[p].status # "closed"}
MatchingFiles == {f \in hlsFiles : IsHLSFile(f.name)}

\* getStats()
getStats ==
    [startTime |-> stats.startTime,
     isLive |-> stats.isLive,
     currentFile |-> stats.currentFile,
     uptime |-> IF Truthy(stats.startTime) THEN now - stats.startTime ELSE 0]

\* The phase of the session as the supervisor's environment sees it.
Phase ==
    IF Running # {} THEN "running"
    ELSE IF Open # {} THEN "closing"
    ELSE IF timers # {} THEN "cooldown"
    ELSE "idle"

\* --------------------------------------------------------------- the class
\* constructor(), and the state of the process before srtServer.start()
Init ==
    /\ now = Epoch
    /\ booted = FALSE
    /\ halted = FALSE
    /\ ffmpegProcess = NoProcess
    /\ stats = [startTime |-> null, isLive |-> FALSE, currentFile |-> NoFile]
    /\ procs = <<>>
    /\ timers = {}
    /\ hlsExists = TRUE
    /\ \E names \in {{OtherFile}, DirNames} :
          hlsFiles = {[name |-> n, owner |-> 0] : n \in names}
    /\ lastClearOk = FALSE
    /\ stops = {}
    /\ act = [name |-> "new", pid |-> NoProcess, code |-> null, removed |-> FALSE]
    /\ ops = <<>>

\* start() without its clearHLSBuffer() call
start_NoClear(spawnOk, in, cause) ==
    LET pid == Len(procs) + 1
    IN /\ UNCHANGED <<hlsFiles, lastClearOk>>
       /\ procs' = Append(procs,
                     [status |-> IF spawnOk THEN "running" ELSE "failed",
                      outputFile |-> OutputFile(now),
                      spawnedAt |-> now,
                      closedAt |-> null,
                      code |-> null,
                      killed |-> FALSE,
                      lives |-> 0,
                      spawnOk |-> spawnOk,
                      cause |-> cause])
       /\ ffmpegProcess' = pid
       /\ ops' = <<"spawn">>
       /\ stops' = {}
       /\ UNCHANGED <<now, halted, stats, hlsExists>>

\* start(): clear the buffer, then spawn the engine and register the
\* handlers.  spawnOk is whether the executable could be launched; cause is
\* the child whose close led to this call (NoProcess at start-up).
start(spawnOk, in, cause) ==
    LET cleared == clearHLSBuffer(hlsExists, hlsFiles, in.listing, in.failName)
        pid == Len(procs) + 1
    IN /\ hlsFiles' = cleared.files
       /\ lastClearOk' = cleared.ok
       /\ procs' = Append(procs,
                     [status |-> IF spawnOk THEN "running" ELSE "failed",
                      outputFile |-> OutputFile(now),
                      spawnedAt |-> now,
                      closedAt |-> null,
                      code |-> null,
                      killed |-> FALSE,
                      lives |-> 0,
                      spawnOk |-> spawnOk,
                      cause |-> cause])
       /\ ffmpegProcess' = pid
       /\ ops' = <<"clear", "spawn">>
       /\ stops' = {}
       /\ UNCHANGED <<now, halted, stats, hlsExists>>

\* srtServer.start() at module load
Boot ==
    /\ ~halted
    /\ ~booted
    /\ booted' = TRUE
    /\ \E spawnOk \in BOOLEAN, in \in ClearInputs :
          /\ start(spawnOk, in, NoProcess)
          /\ act' = [name |-> "boot", pid |-> Len(procs) + 1, code |-> null,
                     removed |-> Removed(in, Len(procs) + 1)]
    /\ UNCHANGED timers

\* the setTimeout callback of the close handler: this.start()
TimerFire(t) ==
    /\ ~halted
    /\ t \in timers
    /\ now >= t.due
    /\ timers' = timers \ {t}
    /\ \E spawnOk \in BOOLEAN, in \in ClearInputs :
          /\ start(spawnOk, in, t.by)
          /\ act' = [name |-> "timer", pid |-> Len(procs) + 1, code |-> null,
                     removed |-> Removed(in, Len(procs) + 1)]
    /\ UNCHANGED booted

\* The branch of the stderr handler a chunk with these markers takes.
LineKind(markers) ==
    IF "frame=" \in markers \/ "time=" \in markers THEN "progress"
    ELSE IF "error" \in markers \/ "Error" \in markers THEN "errorline"
    ELSE "otherline"

\* the stderr handler without its !isLive guard: every progress line fires
OnStderr_Refire(p, markers) ==
    /\ ~halted
    /\ p \in PIDs
    /\ procs[p].status \in {"running", "exited"}
    /\ IF "frame=" \in markers \/ "time=" \in markers
       THEN IF TRUE
            THEN /\ stats' = [isLive |-> TRUE,
                              startTime |-> now,
                              currentFile |-> procs[p].outputFile]
                 /\ procs' = [procs EXCEPT ![p].lives = @ + 1]
            ELSE UNCHANGED <<stats, procs>>
       ELSE IF "error" \in markers \/ "Error" \in markers
            THEN UNCHANGED <<stats, procs>>
            ELSE UNCHANGED <<stats, procs>>
    /\ act' = [name |-> LineKind(markers), pid |-> p, code |-> null,
               removed |-> FALSE]
    /\ ops' = <<>>
    /\ UNCHANGED <<now, booted, halted, ffmpegProcess, timers, hlsExists,
                   hlsFiles, lastClearOk, stops>>

\* the stderr handler treating an error line as the end of the session
OnStderr_ErrorEndsSession(p, markers) ==
    /\ ~halted
    /\ p \in PIDs
    /\ procs[p].status \in {"running", "exited"}
    /\ IF "frame=" \in markers \/ "time=" \in markers
       THEN IF ~stats.isLive
            THEN /\ stats' = [isLive |-> TRUE,
                              startTime |-> now,
                              currentFile |-> procs[p].outputFile]
                 /\ procs' = [procs EXCEPT ![p].lives = @ + 1]
            ELSE UNCHANGED <<stats, procs>>
       ELSE IF "error" \in markers \/ "Error" \in markers
            THEN /\ stats' = [stats EXCEPT !.isLive = FALSE]
                 /\ UNCHANGED procs
            ELSE UNCHANGED <<stats, procs>>
    /\ act' = [name |-> LineKind(markers), pid |-> p, code |-> null,
               removed |-> FALSE]
    /\ ops' = <<>>
    /\ UNCHANGED <<now, booted, halted, ffmpegProcess, timers, hlsExists,
                   hlsFiles, lastClearOk, stops>>

\* the stderr handler naming the recording anew instead of using outputFile
OnStderr_RecomputesFile(p, markers) ==
    /\ ~halted
    /\ p \in PIDs
    /\ procs[p].status \in {"running", "exited"}
    /\ IF "frame=" \in markers \/ "time=" \in markers
       THEN IF ~stats.isLive
            THEN /\ stats' = [isLive |-> TRUE,
                              startTime |-> now,
                              currentFile |-> OutputFile(now)]
                 /\ procs' = [procs EXCEPT ![p].lives = @ + 1]
            ELSE UNCHANGED <<stats, procs>>
       ELSE IF "error" \in markers \/ "Error" \in markers
            THEN UNCHANGED <<stats, procs>>
            ELSE UNCHANGED <<stats, procs>>
    /\ act' = [name |-> LineKind(markers), pid |-> p, code |-> null,
               removed |-> FALSE]
    /\ ops' = <<>>
    /\ UNCHANGED <<now, booted, halted, ffmpegProcess, timers, hlsExists,
                   hlsFiles, lastClearOk, stops>>

\* the stderr handler going live without recording the artifact path
OnStderr_LiveWithoutFile(p, markers) ==
    /\ ~halted
    /\ p \in PIDs
    /\ procs[p].status \in {"running", "exited"}
    /\ IF "frame=" \in markers \/ "time=" \in markers
       THEN IF ~stats.isLive
            THEN /\ stats' = [stats EXCEPT !.isLive = TRUE, !.startTime = now]
                 /\ procs' = [procs EXCEPT ![p].lives = @ + 1]
            ELSE UNCHANGED <<stats, procs>>
       ELSE IF "error" \in markers \/ "Error" \in markers
            THEN UNCHANGED <<stats, procs>>
            ELSE UNCHANGED <<stats, procs>>
    /\ act' = [name |-> LineKind(markers), pid |-> p, code |-> null,
               removed |-> FALSE]
    /\ ops' = <<>>
    /\ UNCHANGED <<now, booted, halted, ffmpegProcess, timers, hlsExists,
                   hlsFiles, lastClearOk, stops>>

\* this.ffmpegProcess.stderr.on("data", ...) of child p; markers are the
\* substrings of Markers the chunk contains.  Output still buffered in the
\* pipe is delivered after the child has exited, before its 'close'.
OnStderr(p, markers) ==
    /\ ~halted
    /\ p \in PIDs
    /\ procs[p].status \in {"running", "exited"}
    /\ IF "frame=" \in markers \/ "time=" \in markers
       THEN IF ~stats.isLive
            THEN /\ stats' = [isLive |-> TRUE,
                              startTime |-> now,
                              currentFile |-> procs[p].outputFile]
                 /\ procs' = [procs EXCEPT ![p].lives = @ + 1]
            ELSE UNCHANGED <<stats, procs>>
       ELSE IF "error" \in markers \/ "Error" \in markers
            THEN UNCHANGED <<stats, procs>>
            ELSE UNCHANGED <<stats, procs>>
    /\ act' = [name |-> LineKind(markers), pid |-> p, code |-> null,
               removed |-> FALSE]
    /\ ops' = <<>>
    /\ UNCHANGED <<now, booted, halted, ffmpegProcess, timers, hlsExists,
                   hlsFiles, lastClearOk, stops>>

\* the close handler without its buffer clear
OnClose_NoClear(p, in) ==
    LET code == IF procs[p].status = "errored" THEN SpawnErrorCode
                ELSE procs[p].code
    IN /\ ~halted
       /\ p \in PIDs
       /\ procs[p].status \in {"exited", "errored"}
       /\ stats' = [stats EXCEPT !.isLive = FALSE]
       /\ timers' = timers \cup
                      {[by |-> p, src |-> "close", due |-> now + RestartDelay]}
       /\ procs' = [procs EXCEPT ![p].status = "closed",
                                 ![p].closedAt = now,
                                 ![p].code = null,
                                 ![p].killed = FALSE]
       /\ act' = [name |-> "close", pid |-> p, code |-> code, removed |-> FALSE]
       /\ ops' = <<"setTimeout">>
       /\ UNCHANGED <<now, booted, halted, ffmpegProcess, hlsExists, hlsFiles,
                      lastClearOk, stops>>

\* the close handler clearing the buffer only after an abnormal exit
OnClose_ClearOnFailureOnly(p, in) ==
    LET code == IF procs[p].status = "errored" THEN SpawnErrorCode
                ELSE procs[p].code
        cleared == IF code = 0 THEN [files |-> hlsFiles, ok |-> lastClearOk]
                   ELSE clearHLSBuffer(hlsExists, hlsFiles, in.listing,
                                       in.failName)
    IN /\ ~halted
       /\ p \in PIDs
       /\ procs[p].status \in {"exited", "errored"}
       /\ stats' = [stats EXCEPT !.isLive = FALSE]
       /\ hlsFiles' = cleared.files
       /\ lastClearOk' = cleared.ok
       /\ timers' = timers \cup
                      {[by |-> p, src |-> "close", due |-> now + RestartDelay]}
       /\ procs' = [procs EXCEPT ![p].status = "closed",
                                 ![p].closedAt = now,
                                 ![p].code = null,
                                 ![p].killed = FALSE]
       /\ act' = [name |-> "close", pid |-> p, code |-> code,
                  removed |-> code # 0 /\ Removed(in, p)]
       /\ ops' = IF code = 0 THEN <<"setTimeout">>
                 ELSE <<"clear", "setTimeout">>
       /\ UNCHANGED <<now, booted, halted, ffmpegProcess, hlsExists, stops>>

\* the close handler restarting only after an abnormal exit
OnClose_RestartOnFailureOnly(p, in) ==
    LET code == IF procs[p].status = "errored" THEN SpawnErrorCode
                ELSE procs[p].code
        cleared == clearHLSBuffer(hlsExists, hlsFiles, in.listing, in.failName)
    IN /\ ~halted
       /\ p \in PIDs
       /\ procs[p].status \in {"exited", "errored"}
       /\ stats' = [stats EXCEPT !.isLive = FALSE]
       /\ hlsFiles' = cleared.files
       /\ lastClearOk' = cleared.ok
       /\ timers' = IF code = 0 THEN timers
                    ELSE timers \cup {[by |-> p, src |-> "close",
                                       due |-> now + RestartDelay]}
       /\ procs' = [procs EXCEPT ![p].status = "closed",
                                 ![p].closedAt = now,
                                 ![p].code = null,
                                 ![p].killed = FALSE]
       /\ act' = [name |-> "close", pid |-> p, code |-> code,
                  removed |-> Removed(in, p)]
       /\ ops' = IF code = 0 THEN <<"clear">> ELSE <<"clear", "setTimeout">>
       /\ UNCHANGED <<now, booted, halted, ffmpegProcess, hlsExists, stops>>

\* this.ffmpegProcess.on("close", ...) of child p.  Node emits 'close' once
\* per child, after the child has ended and its pipes are closed; after a
\* failed spawn it emits 'error' and then 'close' with a negative code.
OnClose(p, in) ==
    LET code == IF procs[p].status = "errored" THEN SpawnErrorCode
                ELSE procs[p].code
        cleared == clearHLSBuffer(hlsExists, hlsFiles, in.listing, in.failName)
    IN /\ ~halted
       /\ p \in PIDs
       /\ procs[p].status \in {"exited", "errored"}
       /\ stats' = [stats EXCEPT !.isLive = FALSE]
       /\ hlsFiles' = cleared.files
       /\ lastClearOk' = cleared.ok
       /\ timers' = timers \cup
                      {[by |-> p, src |-> "close", due |-> now + RestartDelay]}
       /\ procs' = [procs EXCEPT ![p].status = "closed",
                                 ![p].closedAt = now,
                                 ![p].code = null,
                                 ![p].killed = FALSE]
       /\ act' = [name |-> "close", pid |-> p, code |-> code,
                  removed |-> Removed(in, p)]
       /\ ops' = <<"clear", "setTimeout">>
       /\ UNCHANGED <<now, booted, halted, ffmpegProcess, hlsExists, stops>>

\* the error handler retrying the spawn after the restart delay
OnError_Retry(p) ==
    /\ ~halted
    /\ p \in PIDs
    /\ procs[p].status = "failed"
    /\ procs' = [procs EXCEPT ![p].status = "errored"]
    /\ timers' = timers \cup
                   {[by |-> p, src |-> "error", due |-> now + RestartDelay]}
    /\ act' = [name |-> "error", pid |-> p, code |-> null, removed |-> FALSE]
    /\ ops' = <<"setTimeout">>
    /\ UNCHANGED <<now, booted, halted, ffmpegProcess, stats, hlsExists,
                   hlsFiles, lastClearOk, stops>>

\* this.ffmpegProcess.on("error", ...) of child p: the spawn failed
OnError(p) ==
    /\ ~halted
    /\ p \in PIDs
    /\ procs[p].status = "failed"
    /\ procs' = [procs EXCEPT ![p].status = "errored"]
    /\ act' = [name |-> "error", pid |-> p, code |-> null, removed |-> FALSE]
    /\ ops' = <<>>
    /\ UNCHANGED <<now, booted, halted, ffmpegProcess, stats, timers, hlsExists,
                   hlsFiles, lastClearOk, stops>>

\* stop() without this.ffmpegProcess = null
stop_KeepsHandle(in) ==
    LET cleared == clearHLSBuffer(hlsExists, hlsFiles, in.listing, in.failName)
    IN /\ IF ffmpegProcess # NoProcess
          THEN /\ procs' = [procs EXCEPT ![ffmpegProcess].killed =
                              (procs[ffmpegProcess].status = "running"
                                 \/ procs[ffmpegProcess].killed)]
               /\ UNCHANGED ffmpegProcess
               /\ ops' = <<"kill", "clear">>
          ELSE /\ UNCHANGED <<procs, ffmpegProcess>>
               /\ ops' = <<"clear">>
       /\ hlsFiles' = cleared.files
       /\ lastClearOk' = cleared.ok
       /\ stops' = stops \cup ({Phase} \cap {"running", "cooldown"})
       /\ UNCHANGED <<now, booted, stats, timers, hlsExists>>

\* stop(): SIGTERM to the child the handle names (no effect on a child
\* that has ended), drop the handle, clear the buffer.
stop(in) ==
    LET cleared == clearHLSBuffer(hlsExists, hlsFiles, in.listing, in.failName)
    IN /\ IF ffmpegProcess # NoProcess
          THEN /\ procs' = [procs EXCEPT ![ffmpegProcess].killed =
                              (procs[ffmpegProcess].status = "running"
                                 \/ procs[ffmpegProcess].killed)]
               /\ ffmpegProcess' = NoProcess
               /\ ops' = <<"kill", "clear">>
          ELSE /\ UNCHANGED <<procs, ffmpegProcess>>
               /\ ops' = <<"clear">>
       /\ hlsFiles' = cleared.files
       /\ lastClearOk' = cleared.ok
       /\ stops' = stops \cup ({Phase} \cap {"running", "cooldown"})
       /\ UNCHANGED <<now, booted, stats, timers, hlsExists>>

\* a call of the public method stop()
Stop ==
    /\ ~halted
    /\ booted
    /\ \E in \in ClearInputs :
          /\ stop(in)
          /\ act' = [name |-> "stop", pid |-> ffmpegProcess, code |-> null,
                     removed |-> Removed(in, ffmpegProcess)]
    /\ UNCHANGED halted

\* a signal handler that exits without calling stop()
Signal_ExitOnly ==
    /\ ~halted
    /\ booted
    /\ halted' = TRUE
    /\ act' = [name |-> "signal", pid |-> ffmpegProcess, code |-> null,
               removed |-> FALSE]
    /\ ops' = <<>>
    /\ UNCHANGED <<now, booted, ffmpegProcess, stats, procs, timers, hlsExists,
                   hlsFiles, lastClearOk, stops>>

\* process.on("SIGINT" / "SIGTERM"): srtServer.stop(); process.exit(0)
Signal ==
    /\ ~halted
    /\ booted
    /\ \E in \in ClearInputs :
          /\ stop(in)
          /\ act' = [name |-> "signal", pid |-> ffmpegProcess, code |-> null,
                     removed |-> Removed(in, ffmpegProcess)]
    /\ halted' = TRUE

\* a stats read that forgets the recording of a session that has ended
GetStats_ForgetsFile ==
    /\ ~halted
    /\ booted
    /\ stats' = IF stats.isLive THEN stats
                ELSE [stats EXCEPT !.currentFile = NoFile]
    /\ act' = [name |-> "stats", pid |-> NoProcess, code |-> null,
               removed |-> FALSE, reply |-> getStats]
    /\ ops' = <<>>
    /\ UNCHANGED <<now, booted, halted, ffmpegProcess, procs, timers,
                   hlsExists, hlsFiles, lastClearOk, stops>>

\* app.get("/api/stats"): res.json(srtServer.getStats())
GetStats ==
    /\ ~halted
    /\ booted
    /\ act' = [name |-> "stats", pid |-> NoProcess, code |-> null,
               removed |-> FALSE, reply |-> getStats]
    /\ ops' = <<>>
    /\ UNCHANGED <<now, booted, halted, ffmpegProcess, stats, procs, timers,
                   hlsExists, hlsFiles, lastClearOk, stops>>

\* ---------------------------------------------------------- environment
\* the engine writes (or rewrites) a segment or the manifest
EngineWrite(p, name) ==
    /\ ~halted
    /\ p \in Running
    /\ name \in EngineFiles
    /\ hlsExists
    /\ hlsFiles' = {f \in hlsFiles : f.name # name}
                     \cup {[name |-> name, owner |-> p]}
    /\ UNCHANGED procs
    /\ UNCHANGED <<now, booted, halted, ffmpegProcess, stats, timers, hlsExists,
                   lastClearOk, stops, act, ops>>

\* the engine process ends: source disconnected, crash, or SIGTERM
EngineExit(p, code) ==
    /\ ~halted
    /\ p \in Running
    /\ code \in ExitCodes
    /\ procs' = [procs EXCEPT ![p].status = "exited", ![p].code = code]
    /\ UNCHANGED <<now, booted, halted, ffmpegProcess, stats, timers, hlsExists,
                   hlsFiles, lastClearOk, stops, act, ops>>

\* the operator removes the buffer directory
RmDir ==
    /\ ~halted
    /\ hlsExists
    /\ hlsExists' = FALSE
    /\ hlsFiles' = {}
    /\ UNCHANGED <<now, booted, halted, ffmpegProcess, stats, procs, timers,
                   lastClearOk, stops, act, ops>>

\* time passes
Tick ==
    /\ ~halted
    /\ now + TickMs <= MaxTime
    /\ now' = now + TickMs
    /\ UNCHANGED <<booted, halted, ffmpegProcess, stats, procs, timers, hlsExists,
                   hlsFiles, lastClearOk, stops, act, ops>>

Next ==
    \/ Boot
    \/ \E t \in timers : TimerFire(t)
    \/ \E p \in PIDs, markers \in Chunks : OnStderr(p, markers)
    \/ \E p \in PIDs, in \in ClearInputs : OnClose(p, in)
    \/ \E p \in PIDs : OnError(p)
    \/ Stop
    \/ Signal
    \/ GetStats
    \/ \E p \in PIDs, name \in EngineFiles : EngineWrite(p, name)
    \/ \E p \in PIDs, code \in ExitCodes : EngineExit(p, code)
    \/ RmDir
    \/ Tick

Spec == Init /\ [][Next]_vars

\* Node's event loop delivers a pending 'close' event and runs a timer that
\* is due, and the clock advances.
Fairness ==
    /\ WF_vars(Tick)
    /\ WF_vars(\E t \in timers : TimerFire(t))
    /\ WF_vars(\E p \in PIDs, in \in ClearInputs : OnClose(p, in))

\* The runs in which stop() is never called, neither directly nor by a
\* signal handler.
NextNoStop ==
    \/ Boot
    \/ \E t \in timers : TimerFire(t)
    \/ \E p \in PIDs, markers \in Chunks : OnStderr(p, markers)
    \/ \E p \in PIDs, in \in ClearInputs : OnClose(p, in)
    \/ \E p \in PIDs : OnError(p)
    \/ GetStats
    \/ \E p \in PIDs, name \in EngineFiles : EngineWrite(p, name)
    \/ \E p \in PIDs, code \in ExitCodes : EngineExit(p, code)
    \/ RmDir
    \/ Tick

SpecLive == Init /\ [][NextNoStop]_vars /\ Fairness

\* ------------------------------------------------------- a scripted trace
\* The engine of the first session emits progress lines TraceFirstLine and
\* TraceSecondLine ms after start-up and exits with code 0 at TraceExit;
\* its close event is delivered at once.  The clock moves from one time of
\* the script to the next, the last ones being 1 ms before the cooldown has
\* passed and the end of the cooldown.
TraceTimes ==
    {Epoch, Epoch + TraceFirstLine, Epoch + TraceSecondLine, Epoch + TraceExit,
     Epoch + TraceExit + ConfiguredCooldown - 1,
     Epoch + TraceExit + ConfiguredCooldown}

TraceAdvance ==
    /\ booted
    /\ \E t \in TraceTimes : t > now
    /\ now = Epoch + TraceFirstLine => (1 \in PIDs /\ procs[1].lives = 1)
    /\ now = Epoch + TraceExit => (1 \in PIDs /\ procs[1].status = "closed")
    /\ now' = CHOOSE t \in TraceTimes :
                 t > now /\ \A u \in TraceTimes : u > now => t <= u
    /\ UNCHANGED <<booted, halted, ffmpegProcess, stats, procs, timers,
                   hlsExists, hlsFiles, lastClearOk, stops, act, ops>>

TraceProgress ==
    /\ now \in {Epoch + TraceFirstLine, Epoch + TraceSecondLine}
    /\ \E markers \in {{"frame="}, {"time="}} : OnStderr(1, markers)

TraceEngineExit ==
    /\ now = Epoch + TraceExit
    /\ EngineExit(1, 0)

NextTrace ==
    \/ Boot
    \/ TraceProgress
    \/ \E p \in PIDs, name \in EngineFiles : EngineWrite(p, name)
    \/ TraceEngineExit
    \/ \E in \in ClearInputs : OnClose(1, in)
    \/ \E t \in timers : TimerFire(t)
    \/ TraceAdvance

\* the script runs on as long as one of its steps is possible
SpecTrace == Init /\ [][NextTrace]_vars /\ WF_vars(NextTrace)

\* ------------------------------------------------------------- properties
Range(seq) == {seq[i] : i \in DOMAIN seq}

\* children that were launched and whose 'close' has not been handled
Spawned == {p \in PIDs : procs[p].status \in {"running", "exited"}}

\* The state of the session (specification, section 4.4), read off the
\* supervisor's fields, its children and its timers.
SessionState ==
    IF stats.isLive THEN "Live"
    ELSE IF Spawned # {} THEN "Starting"
    ELSE IF timers # {} THEN "CleaningUp"
    ELSE "Idle"

\* a segment or manifest in the buffer was written by the current engine
EngineWrote == \E f \in MatchingFiles : f.owner \in Spawned

\* a step that spawns a child
SpawnStep == Len(procs') > Len(procs)

\* C1: once stop() has been called while an engine process was running, no
\* step spawns an engine any more.  (stops holds the stop() calls since the
\* latest spawn: the formula forbids the first spawn after such a call.)
C1_NoSpawnAfterStopWhileRunning ==
    [][SpawnStep => "running" \notin stops]_vars

\* C2: once stop() has been called during the cooldown (engine closed,
\* restart timer pending), no step spawns an engine any more.
C2_NoSpawnAfterStopInCooldown ==
    [][SpawnStep => "cooldown" \notin stops]_vars

\* C3: in every reachable state stats.startTime is non-null exactly when
\* stats.isLive holds, and getStats() reports uptime 0 when not live.
C3_StartTimeIffLive ==
    /\ (stats.startTime # null) <=> stats.isLive
    /\ ~stats.isLive => getStats.uptime = 0

C5_SingleEngine == Cardinality(Running) <= 1

\* C5 witness: the engine the restart timer spawned runs, the first one
\* being closed.
C5_Witness ==
    /\ Len(procs) >= 2
    /\ procs[1].status = "closed"
    /\ Running = {2}
    /\ procs[2].cause = 1
    /\ ffmpegProcess = 2

\* C6: a spawn failure leads to no restart: no pending timer and no spawn
\* goes back to a child that could not be launched.
C6_NoRestartAfterSpawnFailure ==
    /\ \A t \in timers : procs[t.by].spawnOk
    /\ \A p \in PIDs : procs[p].cause # NoProcess => procs[procs[p].cause].spawnOk

\* C7: in a cycle whose spawn fails the session stays Idle (not live, no
\* start time, no artifact path) and the cycle performs no buffer clear.
C7_FailedSpawnCycleIdleNoClear ==
    (/\ act.name \in {"boot", "timer", "error"}
     /\ ~procs[act.pid].spawnOk)
        => /\ ~stats.isLive
           /\ stats.startTime = null
           /\ stats.currentFile = NoFile
           /\ "clear" \notin Range(ops)

\* C8: a second stop() right after a stop() performs no further buffer
\* cleanup and changes nothing.
C8_StopIdempotent ==
    [][(act.name = "stop" /\ Stop)
         => /\ "clear" \notin Range(ops')
            /\ UNCHANGED <<ffmpegProcess, stats, procs, timers, hlsFiles>>]_vars

\* C9: every step that arms a restart timer is a close handler that has
\* called the buffer clear before setTimeout, whatever the exit code.
C9_ClearBeforeTimer ==
    [][~(timers' \subseteq timers)
         => /\ act'.name = "close"
            /\ \E i, j \in DOMAIN ops' :
                  i < j /\ ops'[i] = "clear" /\ ops'[j] = "setTimeout"]_vars

\* C9 witness: the close handler of an abnormal exit has armed the timer.
C9_Witness ==
    /\ act.name = "close"
    /\ act.code = 1
    /\ \E t \in timers : t.by = act.pid

\* C10: an engine is never spawned less than the configured cooldown after
\* the close of an earlier engine was handled.
C10_CooldownRespected ==
    \A p, q \in PIDs :
        (p < q /\ procs[p].closedAt # null)
            => procs[q].spawnedAt - procs[p].closedAt >= ConfiguredCooldown

\* C10 witness: a restart exactly one cooldown after the close.
C10_Witness ==
    /\ Len(procs) >= 2
    /\ procs[1].closedAt # null
    /\ procs[2].spawnedAt = procs[1].closedAt + ConfiguredCooldown

\* The children a run within the clock's horizon can spawn.
MaxProcs == (MaxTicks * TickMs) \div RestartDelay + 1

\* history: child p was launched and has reached this status
Reached(p, status) ==
    p \in PIDs /\ procs[p].spawnOk /\ procs[p].status = status

\* the restart delay after the close of child p ends after the model clock
\* has stopped
BeyondHorizon(p) ==
    Reached(p, "closed") /\ procs[p].closedAt + RestartDelay > MaxTime

\* C11: while stop() is never called, every exit of an engine that had been
\* spawned is eventually followed by a new spawn (as far as the restart
\* delay elapses before the model clock stops).
C11_ExitLeadsToRespawn ==
    \A p \in 1..MaxProcs :
        Reached(p, "exited") ~> (Len(procs) > p \/ BeyondHorizon(p))

\* C11 witness: an engine that had been spawned has exited, and the next
\* engine has been spawned because of that exit.
C11_Witness ==
    /\ Len(procs) >= 2
    /\ procs[1].spawnOk
    /\ procs[2].cause = 1
    /\ stops = {}


\* a step in which the close handler of child p runs
CloseStep(p) ==
    p \in PIDs /\ procs[p].status # "closed" /\ procs'[p].status = "closed"

\* C12: every close handler step has the same effect, in which the exit
\* code does not occur: not live, buffer cleared, restart timer armed with
\* the cooldown, in this order, handle untouched.
C12_ExitCodeAgnostic ==
    [][\A p \in PIDs : CloseStep(p) =>
          /\ stats' = [stats EXCEPT !.isLive = FALSE]
          /\ \E in \in ClearInputs :
                hlsFiles' = clearHLSBuffer(hlsExists, hlsFiles, in.listing,
                                           in.failName).files
          /\ timers' = timers \cup {[by |-> p, src |-> "close",
                                     due |-> now + ConfiguredCooldown]}
          /\ ops' = <<"clear", "setTimeout">>
          /\ UNCHANGED <<ffmpegProcess, hlsExists, now>>]_vars

\* C12 witness: the close handler of a clean exit (code 0) has cleared the
\* buffer and armed the restart timer.
C12_Witness ==
    /\ act.name = "close"
    /\ act.code = 0
    /\ ops = <<"clear", "setTimeout">>
    /\ \E t \in timers : t.by = act.pid /\ t.due = now + ConfiguredCooldown


\* a step in which the stderr handler of child p takes its progress branch
ProgressStep(p) ==
    \E markers \in Chunks :
        LineKind(markers) = "progress" /\ OnStderr(p, markers)

\* C13: in a session the first progress line, and no other step, makes the
\* session live; it fires once; from then on the session is live until the
\* engine has exited and its close handler runs.
C13_FirstFrameOnce ==
    [][\A p \in PIDs :
          /\ procs'[p].lives <= 1
          /\ procs'[p].lives > procs[p].lives =>
                ProgressStep(p) /\ ~stats.isLive /\ stats'.isLive
          /\ ProgressStep(p) => stats'.isLive /\ procs'[p].lives = 1
          /\ (p \in Spawned /\ procs[p].lives = 1) => stats.isLive
          /\ (procs[p].lives = 1 /\ procs[p].status = "running") =>
                stats'.isLive
          /\ (p \in Spawned /\ procs[p].lives = 1 /\ ~stats'.isLive) =>
                CloseStep(p) /\ procs[p].status = "exited"]_vars

\* C13 witness: the second session went live once, as the first had, and
\* has since handled an error line while staying live.
C13_Witness ==
    \E p \in Running :
        /\ p > 1
        /\ procs[p].lives = 1
        /\ procs[1].lives = 1
        /\ act.name = "errorline"
        /\ act.pid = p
        /\ stats.isLive


\* a step in which the stderr handler of child p handles a chunk that
\* contains an error marker
ErrorMarkerStep(p, markers) ==
    /\ "error" \in markers \/ "Error" \in markers
    /\ OnStderr(p, markers)

EnvironmentStep ==
    \/ now' # now
    \/ hlsExists' # hlsExists
    \/ hlsFiles' \ hlsFiles # {}
    \/ \E p \in Running : procs'[p].status = "exited"

\* a step of a handler that calls clearHLSBuffer: start() (at load and in
\* the timer callback), the close handler and stop()
ClearStep ==
    /\ ~EnvironmentStep
    /\ "clear" \in Range(ops')

\* C15: the buffer clear only runs at cycle boundaries: no clear is
\* executed while a spawned engine has not yet exited.
C15_ClearOnlyAtCycleBoundary ==
    [][ClearStep => Running = {}]_vars

\* C16: the clear is best-effort per file: when the deletion of one
\* matching file fails, every other matching file of the directory is still
\* deleted by the same call.
C16_BestEffortPerFile ==
    [][ClearStep =>
          \E n \in {NoFile} \cup {f.name : f \in hlsFiles} :
              hlsFiles' = {f \in hlsFiles : ~IsHLSFile(f.name) \/ f.name = n}]_vars


\* name is some prefix followed by ext
HasExtension(name, ext) ==
    \E k \in 0..Len(name) : name = SubSeq(name, 1, k) \o ext

\* C17: a clear that runs without a deletion failure removes exactly the
\* files whose name ends in .ts or .m3u8 and leaves every other file of
\* the directory as it was.
C17_ClearRemovesExactlyHLSFiles ==
    [][(ClearStep /\ hlsExists /\ lastClearOk') =>
          hlsFiles' = {f \in hlsFiles :
                          /\ ~HasExtension(f.name, <<".", "t", "s">>)
                          /\ ~HasExtension(f.name, <<".", "m", "3", "u", "8">>)}]_vars

\* C17 witness: a complete clear of the close handler removed the engine's
\* files and left the one file with another extension.
C17_Witness ==
    /\ act.name = "close"
    /\ act.removed
    /\ ops = <<"clear", "setTimeout">>
    /\ lastClearOk
    /\ hlsFiles = {[name |-> OtherFile, owner |-> 0]}


\* C18: after a clear the buffer directory exists: a clear that finds the
\* directory absent creates it.
C18_ClearCreatesDirectory ==
    [][ClearStep => hlsExists']_vars


\* a step of stop(), called directly or by a signal handler
StopStep ==
    /\ ~EnvironmentStep
    /\ ops' \in {<<"kill", "clear">>, <<"clear">>}

\* C19: the supervisor holds no handle once the engine's close handler has
\* run, and none after stop().
C19_HandleReleased ==
    /\ ffmpegProcess # NoProcess => procs[ffmpegProcess].status # "closed"
    /\ act.name \in {"stop", "signal"} => ffmpegProcess = NoProcess

\* C19 (amended): stop() leaves the handle null; the close handler leaves
\* the handle as it was, naming the ended child; a signal is only ever
\* sent by stop(), to the running child the handle names, so stop() after
\* the exit or after an earlier stop() signals no process.
C19_HandleReleasedByStop ==
    [][/\ StopStep => ffmpegProcess' = NoProcess
       /\ \A p \in PIDs :
             /\ CloseStep(p) => ffmpegProcess' = ffmpegProcess
             /\ (procs'[p].killed /\ ~procs[p].killed) =>
                   /\ StopStep
                   /\ ffmpegProcess = p
                   /\ procs[p].status = "running"]_vars

\* C19 witness: stop() ran in the cooldown while the handle still named
\* the closed child: kill() was called, no process was signalled, and the
\* handle is null now.
C19_Witness ==
    /\ act.name = "stop"
    /\ act.pid # NoProcess
    /\ procs[act.pid].status = "closed"
    /\ ~procs[act.pid].killed
    /\ ops = <<"kill", "clear">>
    /\ ffmpegProcess = NoProcess


\* C20: from the spawn of a session's engine until the next session
\* begins, stats.currentFile is the recording path passed to that engine.
C20_ArtifactPathSetAtSpawn ==
    \A p \in PIDs :
        (p = Len(procs) /\ procs[p].spawnOk) =>
            stats.currentFile = procs[p].outputFile


\* a step in which the process exits
ExitStep == ~halted /\ halted'

\* C21: the process exits on a signal only in a step that has run stop()
\* to its end first: the running engine is signalled, the handle is
\* dropped and the buffer clear has run (it removed segments and manifest
\* only, and all of them unless it met an exception).
C21_StopBeforeExit ==
    [][ExitStep =>
          /\ StopStep
          /\ ffmpegProcess' = NoProcess
          /\ \A p \in Running : ffmpegProcess = p => procs'[p].killed
          /\ ops' = IF ffmpegProcess # NoProcess THEN <<"kill", "clear">>
                    ELSE <<"clear">>
          /\ hlsFiles' \subseteq hlsFiles
          /\ hlsFiles \ hlsFiles' \subseteq MatchingFiles
          /\ lastClearOk' => (hlsExists /\ MatchingFiles' = {})
          /\ (hlsExists /\ MatchingFiles = {}) => lastClearOk']_vars

\* C21 witness: the process has exited on a signal; its handler killed the
\* running engine and the clear removed that engine's files.
C21_Witness ==
    /\ halted
    /\ act.name = "signal"
    /\ act.pid # NoProcess
    /\ procs[act.pid].killed
    /\ act.removed
    /\ ops = <<"kill", "clear">>
    /\ ffmpegProcess = NoProcess
    /\ MatchingFiles = {}


\* a step of the /api/stats handler
StatsStep == ~EnvironmentStep /\ act'.name = "stats" /\ ops' = <<>>

\* C22: a stats read changes nothing: stats, the handle, the children, the
\* timers and the buffer directory are as before, and the reply carries the
\* current isLive, the current artifact path and the uptime (0 without a
\* start time, else the time since the start time).
C22_StatsReadIsPure ==
    [][StatsStep =>
          /\ UNCHANGED <<stats, ffmpegProcess, procs, timers, hlsExists,
                         hlsFiles, now, halted>>
          /\ act'.reply.isLive = stats.isLive
          /\ act'.reply.currentFile = stats.currentFile
          /\ act'.reply.uptime = IF stats.startTime = null THEN 0
                                 ELSE now - stats.startTime]_vars

\* C22 witness: a stats read in a live session with a running engine and
\* segments in the buffer, some time after the first frame.
C22_Witness ==
    /\ act.name = "stats"
    /\ act.reply.isLive
    /\ act.reply.uptime > 0
    /\ act.reply.currentFile # NoFile
    /\ Running # {}
    /\ MatchingFiles # {}
    /\ stats.isLive


\* C23: in the scripted trace the session is live from the first progress
\* line, with that line's time as start time; the second line changes
\* nothing; at the exit the uptime is the time since the first line; the
\* buffer is cleared at the time of the exit; the next engine is spawned
\* one cooldown after the exit, not before, and it is spawned.
C23_ScriptedTrace ==
    /\ [](\A p \in PIDs :
            /\ (p = 1 /\ p \in Spawned /\ procs[p].lives = 1) =>
                  /\ stats.isLive
                  /\ stats.startTime = Epoch + TraceFirstLine
            /\ (p = 1 /\ procs[p].status = "exited") =>
                  getStats.uptime = TraceExit - TraceFirstLine
            /\ p > 1 =>
                  procs[p].spawnedAt = Epoch + TraceExit + ConfiguredCooldown)
    /\ [][/\ (now = Epoch + TraceSecondLine /\ ProgressStep(1)) =>
                UNCHANGED stats
          /\ CloseStep(1) =>
                /\ now = Epoch + TraceExit
                /\ ops' = <<"clear", "setTimeout">>
                /\ lastClearOk' => MatchingFiles' = {}]_vars
    /\ Reached(1, "exited") ~> (Len(procs) > 1)

\* C23 witness: the end of the trace: the first session went live at the
\* first line, was closed at the exit and the second engine was spawned one
\* cooldown later onto a cleared buffer.
C23_Witness ==
    /\ Len(procs) = 2
    /\ procs[1].lives = 1
    /\ stats.startTime = Epoch + TraceFirstLine
    /\ procs[1].closedAt = Epoch + TraceExit
    /\ procs[2].spawnedAt = Epoch + TraceExit + ConfiguredCooldown
    /\ procs[2].cause = 1
    /\ now = Epoch + TraceExit + ConfiguredCooldown
    /\ MatchingFiles = {}


\* C24: a progress line handled while not live sets isLive, sets the start
\* time to the current time and sets the artifact path to the recording
\* path of the engine that emitted the line, and does nothing else; a
\* progress line handled while live leaves the three as they are.
C24_FirstFrameEffects ==
    [][\A p \in PIDs :
          ProgressStep(p) =>
             /\ stats' = IF stats.isLive THEN stats
                         ELSE [isLive |-> TRUE,
                               startTime |-> now,
                               currentFile |-> procs[p].outputFile]
             /\ UNCHANGED <<ffmpegProcess, timers, hlsExists, hlsFiles, now>>]_vars

\* C24 witness: the first progress line of a session was handled some time
\* after the spawn: the start time is the line's time and the artifact path
\* is the engine's recording, not a name made from the line's time.
C24_Witness ==
    /\ act.name = "progress"
    /\ act.pid \in Running
    /\ procs[act.pid].lives = 1
    /\ stats.isLive
    /\ stats.startTime = now
    /\ stats.startTime > procs[act.pid].spawnedAt
    /\ stats.currentFile = procs[act.pid].outputFile
    /\ stats.currentFile # OutputFile(stats.startTime)


\* C25: every step that spawns an engine has first called the buffer clear
\* in the same start() call, with no engine running: the directory the
\* engine is spawned onto is the one that clear left, free of segments and
\* manifest when the clear ran without an exception.
C25_ClearBeforeEverySpawn ==
    [][SpawnStep =>
          /\ ops' = <<"clear", "spawn">>
          /\ Running = {}
          /\ Running' \subseteq {Len(procs')}
          /\ \E in \in ClearInputs :
                LET cleared == clearHLSBuffer(hlsExists, hlsFiles, in.listing,
                                              in.failName)
                IN hlsFiles' = cleared.files /\ lastClearOk' = cleared.ok
          /\ lastClearOk' => MatchingFiles' = {}]_vars

\* C25 witness: the restart timer has spawned the second engine after a
\* clear that left no segment and no manifest.
C25_Witness ==
    /\ act.name = "timer"
    /\ ops = <<"clear", "spawn">>
    /\ act.pid > 1
    /\ Running = {act.pid}
    /\ procs[act.pid].cause = act.pid - 1
    /\ lastClearOk
    /\ MatchingFiles = {}


\* C26: whenever isLive is true the start time and the artifact path are
\* non-null, and a stats reply that reports live carries both.
C26_LiveHasStartTimeAndFile ==
    /\ stats.isLive => (stats.startTime # null /\ stats.currentFile # NoFile)
    /\ (act.name = "stats" /\ act.reply.isLive) =>
          (act.reply.startTime # null /\ act.reply.currentFile # NoFile)

\* C26 witness: a stats read at the very time of the first frame reports
\* live with the start time and the recording path.
C26_Witness ==
    /\ act.name = "stats"
    /\ act.reply.isLive
    /\ act.reply.uptime = 0
    /\ act.reply.startTime = now
    /\ \E p \in Running : act.reply.currentFile = procs[p].outputFile


\* C27: the close handler of an engine arms exactly one restart timer; at
\* most one restart timer is pending, and none while an engine is running.
C27_OneRestartTimer ==
    /\ [](/\ Cardinality(timers) <= 1
          /\ Running # {} => timers = {})
    /\ [][\A p \in PIDs :
             CloseStep(p) =>
                /\ Cardinality(timers' \ timers) = 1
                /\ \A t \in timers' \ timers : t.by = p]_vars

\* C27 witness: the cooldown after the first engine's close: its one timer
\* is pending, not yet due, and no engine runs.
C27_Witness ==
    /\ Cardinality(timers) = 1
    /\ Running = {}
    /\ \E t \in timers :
          /\ procs[t.by].status = "closed"
          /\ procs[t.by].spawnOk
          /\ procs[t.by].closedAt < now
          /\ now < t.due


\* C28: whenever isLive is true there is an engine whose close has not been
\* handled, it is the latest one spawned, the artifact path is the
\* recording path it was given, and no earlier session had that path.
C28_LivePathIsCurrentEngine ==
    stats.isLive =>
        /\ Spawned = {Len(procs)}
        /\ \A p \in PIDs :
              IF p \in Spawned
              THEN stats.currentFile = procs[p].outputFile
              ELSE stats.currentFile # procs[p].outputFile

\* C28 witness: the second session is live and the artifact path is the
\* second engine's recording, the first session having been live before.
C28_Witness ==
    /\ stats.isLive
    /\ Len(procs) >= 2
    /\ Running = {Len(procs)}
    /\ procs[1].lives = 1
    /\ stats.currentFile = procs[Len(procs)].outputFile
    /\ stats.currentFile # procs[1].outputFile


\* C29: no two engines are given the same recording path, and two spawns
\* are at least one cooldown apart.
C29_DistinctRecordingPaths ==
    \A p, q \in PIDs :
        p < q =>
           /\ procs[p].outputFile # procs[q].outputFile
           /\ procs[q].spawnedAt - procs[p].spawnedAt >= ConfiguredCooldown

\* C29 witness: the second engine, spawned one cooldown after the first,
\* records to another file than the first.
C29_Witness ==
    /\ Len(procs) >= 2
    /\ procs[2].spawnedAt = procs[1].spawnedAt + ConfiguredCooldown
    /\ procs[1].outputFile = OutputFile(procs[1].spawnedAt)
    /\ procs[2].outputFile = OutputFile(procs[2].spawnedAt)
    /\ procs[2].outputFile # procs[1].outputFile


\* C30: in the state right after stop() the stats report not live.
C30_NotLiveAfterStop ==
    [][StopStep => ~stats'.isLive]_vars

====
